---- MODULE Spec2Model ----
(***************************************************************************)
(* quaily-journalist: scoring, ranked-item store and digest selection.     *)
(*                                                                         *)
(* Time is counted in whole UTC days (now); an item's age is counted in    *)
(* whole hours.  A float64 score (count-1)/(diff+2)^1.8 is kept exactly as *)
(* the pair <<count-1, diff+2>>; pairs are compared by cross               *)
(* multiplication of 5th and 9th powers (x^1.8 = x^(9/5)).                 *)
(* A Go string built by fmt.Sprintf is the sequence of its pieces.         *)
(***************************************************************************)
EXTENDS Integers, Sequences, FiniteSets, TLC

VARIABLES now, db, last, cfg, sched

vars == <<now, db, last, cfg, sched>>

\* ---------------------------------------------------------------- bounds
MaxCount == 3      \* largest engagement count (replies / points) fetched
MaxAge == 0        \* largest item age, in hours, at fetch time
MaxScoreAge == 2   \* largest item age, in hours, the scoring specification draws
MaxDay == 1        \* last day the clock of the pipeline reaches
MaxId == 2         \* item ids per source
MaxWriteDay == 0   \* last day on which the store-level specification writes
MaxStoreDay == 7   \* last day the clock of the store-level specification reaches
MaxItems == 3      \* longest candidate list the filter specification draws
MaxSkipDays == 2   \* longest skip duration, in days, the marker specification draws
MaxLines == 3      \* longest file, in lines, the parser specification draws
MaxNameLen == 2    \* longest source, channel and id text the key specification draws

\* ------------------------------------------------------ program constants
ItemTTLDays == 7         \* 7*24*time.Hour
PublishedTTLDays == 30   \* 30*24*time.Hour
DaysPerWeek == 7         \* ISO week
FetchFactor == 5         \* fetchN := TopN * 5
FallbackTitles == 3      \* min(3, len(raw))

\* ------------------------------------------------------------- utilities
Min(a, b) == IF a < b THEN a ELSE b

Range(s) == {s[i] : i \in 1..Len(s)}

\* ------------------------------------------------------------- the score
Zero == <<0, 1>>

\* float64 division num / den^1.8 with den >= 2: 0 exactly when num = 0
Quot(num, den) == IF num = 0 THEN Zero ELSE <<num, den>>

\* a > b for scores of numerator >= 0
ScoreGT(a, b) == (a[1] ^ 5) * (b[2] ^ 9) > (b[1] ^ 5) * (a[2] ^ 9)

ScorePositive(s) == s[1] > 0

\* a score that does not decay with age
DecayScoreAgeless(count, age) ==
    LET score == Quot(count - 1, 2)
    IN  IF score[1] < 0 THEN Zero ELSE score

\* a numerator of count where the code has count-1
DecayScoreOffByOne(count, age) ==
    LET diff == IF age < 0 THEN 0 ELSE age
        score == Quot(count, diff + 2)
    IN  IF score[1] < 0 THEN Zero ELSE score

\* the shared tail of both scoring functions: clamp the age, divide, clamp
DecayScore(count, age) ==
    LET diff == IF age < 0 THEN 0 ELSE age
        score == Quot(count - 1, diff + 2)
    IN  IF score[1] < 0 THEN Zero ELSE score

popularityScore(it) ==
    IF it.replies <= 0 THEN Zero ELSE DecayScore(it.replies, it.age)

hnPopularityScore(it) ==
    IF it.points <= 0 THEN Zero ELSE DecayScore(it.points, it.age)

\* ------------------------------------------------------------ period keys
\* "2006-01-02" of day t, or "%04d-W%02d" of its ISO week
periodKey(freq, t) ==
    IF freq = "weekly" THEN <<"W", t \div DaysPerWeek>> ELSE <<"D", t>>

\* --------------------------------------------------------------- the keys
periodZKey(source, period) == <<"news:source:", source, ":period:">> \o period

itemKey(source, id) == <<"news:item:", source, ":", id>>

publishedKey(channel, period) == <<"news:published:", channel, ":">> \o period

\* a skip marker key without the channel
skipKeyNoChannel(channel, id) == <<"news:skip:", "", ":", id>>

skipKey(channel, id) == <<"news:skip:", channel, ":", id>>

\* ------------------------------------------------------- Redis primitives
\* a key is visible until its expiry day; exp = 0 is a key without TTL
Live(d, t, key) == key \in DOMAIN d /\ (d[key].exp = 0 \/ t < d[key].exp)

Put(d, key, entry) ==
    [k \in DOMAIN d \cup {key} |-> IF k = key THEN entry ELSE d[k]]

\* SET key val EX ttl
RSet(d, t, key, val, ttl) ==
    Put(d, key, [kind |-> "string", val |-> val, exp |-> t + ttl])

\* a ZADD that keeps the score of a member that is already in the set
RZAddKeepOld(d, t, key, member, score) ==
    LET old == IF Live(d, t, key) THEN d[key].val ELSE <<>>
        new == [m \in DOMAIN old \cup {member} |->
                   IF m \in DOMAIN old THEN old[m] ELSE score]
    IN  Put(d, key, [kind |-> "zset", val |-> new, exp |-> 0])

\* ZADD key score member: creates the sorted set on first insert
RZAdd(d, t, key, member, score) ==
    LET old == IF Live(d, t, key) THEN d[key].val ELSE <<>>
        new == [m \in DOMAIN old \cup {member} |->
                   IF m = member THEN score ELSE old[m]]
    IN  Put(d, key, [kind |-> "zset", val |-> new, exp |-> 0])

\* what the server drops when the clock reaches day t
Purge(d, t) == [k \in {x \in DOMAIN d : Live(d, t, x)} |-> d[k]]

\* the member ZREVRANGE lists first: highest score, then highest member
First(z) ==
    CHOOSE m \in DOMAIN z :
        \A o \in DOMAIN z \ {m} :
            ScoreGT(z[m], z[o]) \/ (~ScoreGT(z[o], z[m]) /\ m > o)

RECURSIVE RevOrder(_)
\* all <<member, score>> pairs of a sorted set, in ZREVRANGE order
RevOrder(z) ==
    IF DOMAIN z = {} THEN <<>>
    ELSE LET m == First(z)
         IN  <<[member |-> m, score |-> z[m]]>>
                 \o RevOrder([o \in DOMAIN z \ {m} |-> z[o]])

\* ZREVRANGE key start stop WITHSCORES, with Redis' index rules
ZRevRangeWithScores(d, t, key, start, stop) ==
    LET all == IF Live(d, t, key) THEN RevOrder(d[key].val) ELSE <<>>
        len == Len(all)
        s0 == IF start < 0 THEN start + len ELSE start
        e0 == IF stop < 0 THEN stop + len ELSE stop
        s1 == IF s0 < 0 THEN 0 ELSE s0
        e1 == IF e0 >= len THEN len - 1 ELSE e0
    IN  IF s1 > e1 \/ s1 >= len THEN <<>> ELSE SubSeq(all, s1 + 1, e1 + 1)

\* -------------------------------------------------------------- the data
Ids == 1..MaxId

TitleOf(id) == ToString(id)

\* json.Marshal of a NewsItem: the encoded fields the pipeline reads back
Marshal(it) ==
    <<"json", [id |-> it.id, title |-> it.title, node_name |-> it.node,
               replies |-> it.replies, points |-> it.points]>>

\* json.Unmarshal of a stored payload
Unmarshal(b) ==
    [id |-> b[2].id, title |-> b[2].title, node |-> b[2].node_name,
     replies |-> b[2].replies, points |-> b[2].points]

\* ---------------------------------------------------------- the store API
\* fail names the Redis command that fails: "none", "set" or "zadd"
AddNews(d, t, source, period, it, score, fail) ==
    IF fail = "set" THEN [db |-> d, err |-> TRUE]
    ELSE LET d1 == RSet(d, t, itemKey(source, it.id), Marshal(it), ItemTTLDays)
         IN  IF fail = "zadd" THEN [db |-> d1, err |-> TRUE]
             ELSE [db |-> RZAdd(d1, t, periodZKey(source, period), it.id, score),
                   err |-> FALSE]

RECURSIVE Resolve(_, _, _, _)
\* the loop of TopNews over the ranked ids: a missing payload is an error
Resolve(d, t, source, zs) ==
    IF zs = <<>> THEN [err |-> FALSE, items |-> <<>>]
    ELSE IF ~Live(d, t, itemKey(source, Head(zs).member))
         THEN [err |-> TRUE, items |-> <<>>]
         ELSE LET rest == Resolve(d, t, source, Tail(zs))
                  ws == [item |-> Unmarshal(d[itemKey(source, Head(zs).member)].val),
                         score |-> Head(zs).score]
              IN  IF rest.err THEN rest
                  ELSE [err |-> FALSE, items |-> <<ws>> \o rest.items]

\* ok is false when the ZREVRANGE command itself fails
TopNews(d, t, source, period, n, ok) ==
    IF ~ok THEN [err |-> TRUE, items |-> <<>>]
    ELSE Resolve(d, t, source,
                 ZRevRangeWithScores(d, t, periodZKey(source, period), 0, n - 1))

\* a check that compares the flag with another text than the one written
IsPublishedOtherValue(d, t, channel, period) ==
    Live(d, t, publishedKey(channel, period))
        /\ d[publishedKey(channel, period)].val = "true"

IsPublished(d, t, channel, period) ==
    Live(d, t, publishedKey(channel, period))
        /\ d[publishedKey(channel, period)].val = "1"

\* a MarkPublished that reports success without setting the flag
MarkPublishedNoop(d, t, channel, period) == d

MarkPublished(d, t, channel, period) ==
    RSet(d, t, publishedKey(channel, period), "1", PublishedTTLDays)

\* a check that looks the marker up without the channel in its key
IsSkippedOtherKey(d, t, channel, id) == Live(d, t, skipKey("", id))

IsSkipped(d, t, channel, id) == Live(d, t, skipKey(channel, id))

\* a MarkSkipped without the guard: go-redis sends a duration of 0 or less
\* as a SET without expiry
MarkSkippedUnguarded(d, t, channel, id, dur) ==
    IF dur <= 0 THEN Put(d, skipKey(channel, id),
                         [kind |-> "string", val |-> "1", exp |-> 0])
    ELSE RSet(d, t, skipKey(channel, id), "1", dur)

\* dur is the skip duration in days
MarkSkipped(d, t, channel, id, dur) ==
    IF dur <= 0 THEN d ELSE RSet(d, t, skipKey(channel, id), "1", dur)

\* ------------------------------------------------------------ Go strings
\* strings.ToLower on the strings of the model
ToLower(s) ==
    CASE s = "Crypto" -> "crypto"
      [] s = " Crypto" -> " crypto"
      [] s = "Ask" -> "ask"
      [] s = " Story" -> " story"
      [] s = "Story" -> "story"
      [] OTHER -> s

\* strings.TrimSpace on the strings of the model
TrimSpace(s) ==
    CASE s = " " -> ""
      [] s = " crypto" -> "crypto"
      [] s = " Crypto" -> "Crypto"
      [] s = " Story" -> "Story"
      [] s = " story" -> "story"
      [] s = " ---" -> "---"
      [] OTHER -> s

RECURSIVE Join(_, _)
\* strings.Join, as the sequence of its pieces
Join(strs, sep) ==
    IF strs = <<>> THEN <<>>
    ELSE IF Len(strs) = 1 THEN <<strs[1]>>
    ELSE <<strs[1], sep>> \o Join(Tail(strs), sep)

\* ------------------------------------------------------------ the filters
\* a filter that compares the item's category as it is spelled
filterByNodesCaseSensitive(items, nodes) ==
    IF Len(nodes) = 0 THEN items
    ELSE LET set == {TrimSpace(ToLower(n)) : n \in Range(nodes)}
             Keep(ws) == ws.item.node \in set
         IN  SelectSeq(items, Keep)

filterByNodes(items, nodes) ==
    IF Len(nodes) = 0 THEN items
    ELSE LET set == {TrimSpace(ToLower(n)) : n \in Range(nodes)}
             Keep(ws) == ToLower(ws.item.node) \in set
         IN  SelectSeq(items, Keep)

filterByNodesLocal(items, nodes) ==
    IF Len(nodes) = 0 THEN items
    ELSE LET set == {ToLower(TrimSpace(n)) : n \in Range(nodes)}
             Keep(ws) == ToLower(ws.item.node) \in set
         IN  SelectSeq(items, Keep)

\* a filter that also filters when the list names no item type
filterHNTypesAlways(items, nodes) ==
    IF Len(nodes) = 0 THEN items
    ELSE LET allowed == {ToLower(TrimSpace(n)) : n \in Range(nodes)}
                            \cap {"ask", "show", "job", "story"}
             Keep(ws) == ToLower(ws.item.node) \in allowed
         IN  SelectSeq(items, Keep)

filterHNTypes(items, nodes) ==
    IF Len(nodes) = 0 THEN items
    ELSE LET allowed == {ToLower(TrimSpace(n)) : n \in Range(nodes)}
                            \cap {"ask", "show", "job", "story"}
             Keep(ws) == ToLower(ws.item.node) \in allowed
         IN  IF allowed = {} THEN items ELSE SelectSeq(items, Keep)

filterHNTypesLocal(items, nodes) == filterHNTypes(items, nodes)

\* a filter that drops nothing
LowSignalFilterNone(source, items) == items

\* the zero-signal filter of the builder and of generate
LowSignalFilter(source, items) ==
    LET Keep(ws) ==
            IF ToLower(source) = "hackernews" THEN ScorePositive(ws.score)
            ELSE ws.item.replies > 0 /\ ScorePositive(ws.score)
    IN  SelectSeq(items, Keep)

\* the skip-mark filter: an item whose check fails (errId) is dropped too
SkipFilter(d, t, channel, items, errId) ==
    LET Keep(ws) == ws.item.id # errId /\ ~IsSkipped(d, t, channel, ws.item.id)
    IN  SelectSeq(items, Keep)

IdsOf(items) == [i \in 1..Len(items) |-> items[i].item.id]

\* ---------------------------------------------------------- the renderer
\* one SummarizeItem call: out is "err", "" or the text returned
Description(summarizer, out) ==
    IF summarizer /\ out # "err" /\ out # "" THEN out ELSE ""

\* one SummarizePost call, trimmed; a Go string is the sequence of its pieces
PostSummary(summarizer, out) ==
    IF summarizer /\ out # "err" /\ TrimSpace(out) # ""
    THEN <<TrimSpace(out)>> ELSE <<>>

\* fmt.Sprintf("Top highlights: %s.", strings.Join(titles, ", "))
FallbackSummary(raw) ==
    LET k == Min(FallbackTitles, Len(raw))
        titles == [i \in 1..k |-> raw[i].item.title]
    IN  IF k > 0 THEN <<"Top highlights: ">> \o Join(titles, ", ") \o <<".">>
        ELSE <<>>

\* newsletter.Data of the first min(len(items), TopN) items
DigestItems(items, topN, summarizer, itemOut) ==
    [i \in 1..Min(Len(items), topN) |->
        [id |-> items[i].item.id, title |-> items[i].item.title,
         node |-> items[i].item.node, replies |-> items[i].item.replies,
         desc |-> Description(summarizer, itemOut)]]

\* the rendered text: <<>> is the empty string, <<data>> the template's output
Render(data, renderOK) == IF renderOK THEN <<data>> ELSE <<>>

\* the post summary of the builder: the summarizer's, else the fallback
BuilderSummary(raw, summarizer, postOut) ==
    IF PostSummary(summarizer, postOut) = <<>> THEN FallbackSummary(raw)
    ELSE PostSummary(summarizer, postOut)

renderMarkdown(c, items, summarizer, postOut, itemOut, renderOK) ==
    LET maxN == Min(Len(items), c.topN)
        raw == SubSeq(items, 1, maxN)
        data == [items |-> DigestItems(items, c.topN, summarizer, itemOut),
                 summary |-> BuilderSummary(raw, summarizer, postOut)]
    IN  Render(data, renderOK)

\* ------------------------------------------------------ the inputs of a run
\* the call that fails in a run (at most one), and the item it concerns
Fail(at, id) == [at |-> at, id |-> id]

NoFail == Fail("none", 0)

BuilderFailures ==
    {Fail(a, 0) : a \in {"none", "ispublished", "topnews", "render", "write",
                         "markpublished"}}
        \cup {Fail(a, i) : a \in {"isskipped", "markskipped"}, i \in Ids}

GenerateFailures ==
    {Fail(a, 0) : a \in {"none", "topnews", "render", "mkdir", "write"}}

PostOutcomes == {"err", "", " ", "AI summary"}

ItemOutcomes == {"err", "", "AI description"}

\* The environment of one run: either one call fails, or none does and the
\* summarizer (when configured) answers in any of its ways.
RunInputs(summarizer, failures) ==
    {[fail |-> f, post |-> "err", item |-> "err"] : f \in failures}
        \cup (IF summarizer
              THEN {[fail |-> NoFail, post |-> p, item |-> i] :
                       p \in PostOutcomes, i \in ItemOutcomes}
              ELSE {})

\* what a run did: the observation the properties are stated on
Outcome(op, ch, period, stage, selected, md, wrote, pubCall, skipCalls) ==
    [op |-> op, ch |-> ch, period |-> period, stage |-> stage,
     selected |-> selected, md |-> md, wrote |-> wrote,
     pubCall |-> pubCall, skipCalls |-> skipCalls]

\* ------------------------------------------------------------ the builder
\* MarkSkipped over items[:min(len, TopN)]; the call for failId fails
RECURSIVE MarkAll(_, _, _, _, _, _)
MarkAll(d, t, channel, ids, dur, failId) ==
    IF ids = <<>> THEN d
    ELSE MarkAll(IF Head(ids) = failId THEN d
                 ELSE MarkSkipped(d, t, channel, Head(ids), dur),
                 t, channel, Tail(ids), dur, failId)

\* fetchN of the builder and of generate
FetchN(topN) == IF topN * FetchFactor < topN THEN topN ELSE topN * FetchFactor

\* the candidates of a builder tick, lines 80-118
Candidates(d, t, c, ch, top, fail) ==
    LET byNode == IF ToLower(c.source) = "hackernews"
                  THEN filterHNTypes(top.items, c.nodes)
                  ELSE filterByNodes(top.items, c.nodes)
        nz == LowSignalFilter(c.source, byNode)
    IN  SkipFilter(d, t, ch, nz, IF fail.at = "isskipped" THEN fail.id ELSE 0)

\* a gate that lets every tick through
BelowMinItemsNever(items, c) == FALSE

\* the minimum-items gate, lines 119-121
BelowMinItems(items, c) == Len(items) < c.minItems

runOnce(d, t, conf, ch, fail, postOut, itemOut) ==
    LET c == conf.channels[ch]
        period == periodKey(c.frequency, t)
        Stop(stage) ==
            [db |-> d,
             last |-> Outcome("builder", ch, period, stage, <<>>, <<>>, FALSE,
                              FALSE, <<>>)]
        top == TopNews(d, t, c.source, period, FetchN(c.topN),
                       fail.at # "topnews")
        items == Candidates(d, t, c, ch, top, fail)
        md == renderMarkdown(c, items, conf.summarizer, postOut, itemOut,
                             fail.at # "render")
        marked == IdsOf(SubSeq(items, 1, Min(Len(items), c.topN)))
        d1 == MarkPublished(d, t, ch, period)
        d2 == MarkAll(d1, t, ch, marked, c.skipDays,
                      IF fail.at = "markskipped" THEN fail.id ELSE 0)
    IN  IF fail.at = "ispublished" THEN Stop("err_ispublished")
        ELSE IF IsPublished(d, t, ch, period) THEN Stop("published")
        ELSE IF top.err THEN Stop("err_topnews")
        ELSE IF BelowMinItems(items, c)
             THEN [db |-> d,
                   last |-> Outcome("builder", ch, period, "below_min",
                                    IdsOf(items), <<>>, FALSE, FALSE, <<>>)]
        ELSE IF fail.at = "write"
             THEN [db |-> d,
                   last |-> Outcome("builder", ch, period, "err_write",
                                    IdsOf(items), md, FALSE, FALSE, <<>>)]
        ELSE IF fail.at = "markpublished"
             THEN [db |-> d,
                   last |-> Outcome("builder", ch, period, "err_markpublished",
                                    IdsOf(items), md, TRUE, TRUE, <<>>)]
        ELSE [db |-> d2,
              last |-> Outcome("builder", ch, period, "done", IdsOf(items), md,
                               TRUE, TRUE, marked)]

\* ------------------------------------------------------- force-generate
\* generate without -i, and generate -i with the URLs of the file's lines
StoreMode == [external |-> FALSE, urls |-> <<>>]

FileModes ==
    {[external |-> TRUE, urls |-> <<>>], [external |-> TRUE, urls |-> <<101, 102>>]}

\* the items of the URL-list mode, in input order, without score
ExternalItems(urls) ==
    [i \in 1..Len(urls) |->
        [item |-> [id |-> urls[i], title |-> ToString(urls[i]), node |-> "host",
                   replies |-> 0, points |-> 0],
         score |-> Zero]]

\* lines 214-234: category and zero-signal filters, store mode only
GenerateFilter(c, items) ==
    LowSignalFilter(c.source,
                    IF c.source = "hackernews"
                    THEN filterHNTypesLocal(items, c.nodes)
                    ELSE filterByNodesLocal(items, c.nodes))

\* lines 378-390: the summarizer's post summary, when there is one
GenerateSummary(raw, summarizer, postOut) == PostSummary(summarizer, postOut)

\* candidates that are also put through the builder's skip-mark filter
GenerateCandidatesSkipping(d, t, c, ch, input, fail) ==
    LET top == TopNews(d, t, c.source, periodKey("daily", t), FetchN(c.topN),
                       fail.at # "topnews")
    IN  IF input.external
        THEN [err |-> FALSE, items |-> ExternalItems(input.urls)]
        ELSE [err |-> top.err,
              items |-> SkipFilter(d, t, ch, GenerateFilter(c, top.items), 0)]

\* lines 155-234: the items of the URL list, or the filtered top of the
\* source's daily ranked set
GenerateCandidates(d, t, c, ch, input, fail) ==
    LET top == TopNews(d, t, c.source, periodKey("daily", t), FetchN(c.topN),
                       fail.at # "topnews")
    IN  IF input.external
        THEN [err |-> FALSE, items |-> ExternalItems(input.urls)]
        ELSE [err |-> top.err, items |-> GenerateFilter(c, top.items)]

generate(d, t, conf, ch, input, fail, postOut, itemOut) ==
    LET c == conf.channels[ch]
        period == periodKey("daily", t)
        Stop(stage, selected) ==
            [db |-> d,
             last |-> Outcome("generate", ch, period, stage, selected, <<>>,
                              FALSE, FALSE, <<>>)]
        top == GenerateCandidates(d, t, c, ch, input, fail)
        all == top.items
        items == IF Len(all) > c.topN THEN SubSeq(all, 1, c.topN) ELSE all
        data == [items |-> DigestItems(items, Len(items), conf.summarizer, itemOut),
                 summary |-> GenerateSummary(items, conf.summarizer, postOut)]
    IN  IF top.err THEN Stop("err_topnews", <<>>)
        ELSE IF Len(all) = 0 THEN Stop("no_items", <<>>)
        ELSE IF Len(all) < c.minItems THEN Stop("below_min", IdsOf(all))
        ELSE IF fail.at = "render" THEN Stop("err_render", IdsOf(items))
        ELSE IF fail.at = "mkdir" THEN Stop("err_mkdir", IdsOf(items))
        ELSE IF fail.at = "write" THEN Stop("err_write", IdsOf(items))
        ELSE [db |-> d,
              last |-> Outcome("generate", ch, period, "done", IdsOf(items),
                               Render(data, TRUE), TRUE, FALSE, <<>>)]

\* --------------------------------------------------------- the collectors
V2EXNode(id) == IF id % 2 = 1 THEN "crypto" ELSE "apple"

HNType(id) == IF id % 2 = 1 THEN "story" ELSE "ask"

\* what TopicsByNode can return: Points is never set by the forum client
V2EXItems ==
    {[id |-> i, title |-> TitleOf(i), node |-> V2EXNode(i), replies |-> r,
      points |-> 0, age |-> a] : i \in Ids, r \in 0..MaxCount, a \in 0..MaxAge}

\* what the story lists can return
HNItems ==
    {[id |-> i, title |-> TitleOf(i), node |-> HNType(i), replies |-> 0,
      points |-> p, age |-> a] : i \in Ids, p \in 0..MaxCount, a \in 0..MaxAge}

StoreFailures == {"none", "set", "zadd"}

Collected(source, it, count, score, calls, errs) ==
    [op |-> "collect", source |-> source, id |-> it.id, count |-> count,
     score |-> score, calls |-> calls, errs |-> errs]

\* a loop body that stores an item whatever its score
V2EXCollectItemAnyScore(d, t, it, failDay, failWeek) ==
    LET score == popularityScore(it)
        day == periodKey("daily", t)
        week == periodKey("weekly", t)
        a1 == AddNews(d, t, "v2ex", day, it, score, failDay)
        a2 == AddNews(a1.db, t, "v2ex", week, it, score, failWeek)
    IN  [db |-> a2.db,
         last |-> Collected("v2ex", it, it.replies, score, <<day, week>>,
                            <<a1.err, a2.err>>)]

\* the loop body of V2EXCollector.runOnce for one fetched item
V2EXCollectItem(d, t, it, failDay, failWeek) ==
    LET score == popularityScore(it)
        day == periodKey("daily", t)
        week == periodKey("weekly", t)
        a1 == AddNews(d, t, "v2ex", day, it, score, failDay)
        a2 == AddNews(a1.db, t, "v2ex", week, it, score, failWeek)
    IN  IF ~ScorePositive(score)
        THEN [db |-> d,
              last |-> Collected("v2ex", it, it.replies, score, <<>>, <<>>)]
        ELSE [db |-> a2.db,
              last |-> Collected("v2ex", it, it.replies, score, <<day, week>>,
                                 <<a1.err, a2.err>>)]

\* the loop body of HNCollector.runOnce for one fetched item
HNCollectItem(d, t, it, failDay, failWeek) ==
    LET score == hnPopularityScore(it)
        day == periodKey("daily", t)
        week == periodKey("weekly", t)
        a1 == AddNews(d, t, "hackernews", day, it, score, failDay)
        a2 == AddNews(a1.db, t, "hackernews", week, it, score, failWeek)
    IN  IF ~ScorePositive(score)
        THEN [db |-> d,
              last |-> Collected("hackernews", it, it.points, score, <<>>, <<>>)]
        ELSE IF a1.err
        THEN [db |-> a1.db,
              last |-> Collected("hackernews", it, it.points, score, <<day>>,
                                 <<TRUE>>)]
        ELSE [db |-> a2.db,
              last |-> Collected("hackernews", it, it.points, score,
                                 <<day, week>>, <<FALSE, a2.err>>)]

\* ------------------------------------------------------- the deployments
Channel(source, frequency, topN, minItems, nodes, skipDays) ==
    [source |-> source, frequency |-> frequency, topN |-> topN,
     minItems |-> minItems, nodes |-> nodes, skipDays |-> skipDays]

\* Configurations after FillDefaults, as serve and generate read them.  A run
\* follows the collector of one source: the other collector writes only keys
\* that carry its own source name, which no channel of the run reads.
Deployments ==
    {[summarizer |-> FALSE, collectors |-> {"v2ex"},
      channels |-> [ch \in {"forum"} |->
                       Channel("v2ex", "daily", 1, 1, <<>>, 2)]],
     [summarizer |-> TRUE, collectors |-> {"v2ex"},
      channels |-> [ch \in {"forum"} |->
                       Channel("v2ex", "daily", 2, 2, <<" Crypto", "apple">>, 1)]],
     [summarizer |-> TRUE, collectors |-> {"hackernews"},
      channels |-> [ch \in {"hn"} |->
                       Channel("hackernews", "weekly", 2, 1, <<"top", "Ask">>, 0)]]}

Channels == DOMAIN cfg.channels

\* ------------------------------------------------------------ the actions
Apply(r) == db' = r.db /\ last' = r.last /\ UNCHANGED <<now, cfg, sched>>

\* one fetched forum item goes through the collector's loop body
V2EXCollect ==
    /\ "v2ex" \in cfg.collectors
    /\ \E it \in V2EXItems :
           /\ db' = V2EXCollectItem(db, now, it, "none", "none").db
           /\ last' = [op |-> "collect"]
           /\ UNCHANGED <<now, cfg, sched>>

\* one fetched story goes through the collector's loop body
HNCollect ==
    /\ "hackernews" \in cfg.collectors
    /\ \E it \in HNItems :
           /\ db' = HNCollectItem(db, now, it, "none", "none").db
           /\ last' = [op |-> "collect"]
           /\ UNCHANGED <<now, cfg, sched>>

BuilderTick ==
    \E ch \in Channels, in \in RunInputs(cfg.summarizer, BuilderFailures) :
        Apply(runOnce(db, now, cfg, ch, in.fail, in.post, in.item))

Generate ==
    \E ch \in Channels :
        \/ \E in \in RunInputs(cfg.summarizer, GenerateFailures) :
               Apply(generate(db, now, cfg, ch, StoreMode, in.fail, in.post,
                              in.item))
        \/ \E input \in FileModes, out \in {"err", "AI summary"} :
               Apply(generate(db, now, cfg, ch, input, NoFail, out, out))

\* midnight UTC: the day changes and the server drops what has expired
AdvanceDay ==
    /\ now < MaxDay
    /\ now' = now + 1
    /\ db' = Purge(db, now + 1)
    /\ last' = [op |-> "midnight"]
    /\ UNCHANGED <<cfg, sched>>

\* the workers serve hands to the Manager: one collector per polled source
\* and one builder per channel, named by source and by channel
Workers(conf) == conf.collectors \cup DOMAIN conf.channels

\* Before Manager.Start: no goroutine runs, the context is not cancelled, the
\* error channel is empty.  pc is the place of each worker's Start, ticker the
\* state of its time.Ticker (its channel holds at most one tick), ret what
\* Start returned, mgr the place of Manager.Start and result what it returned.
SchedInit(conf) ==
    [cancelled |-> FALSE,
     pc |-> [w \in Workers(conf) |-> "idle"],
     ticker |-> [w \in Workers(conf) |-> "off"],
     ret |-> [w \in Workers(conf) |-> "none"],
     errs |-> <<>>,
     mgr |-> "spawn",
     result |-> "none"]

Init ==
    /\ now = 0
    /\ db = <<>>
    /\ last = [op |-> "start"]
    /\ cfg \in Deployments
    /\ sched = SchedInit(cfg)

Next == V2EXCollect \/ HNCollect \/ BuilderTick \/ Generate \/ AdvanceDay

Spec == Init /\ [][Next]_vars

\* ---------------------------------------------- the scoring specification
\* the items the scoring functions are applied to: any counts, any age,
\* a creation time in the future (age < 0) included
ScoreItems ==
    {[id |-> 1, title |-> TitleOf(1), node |-> "crypto", replies |-> r,
      points |-> p, age |-> a] :
        r \in (-1)..MaxCount, p \in (-1)..MaxCount, a \in (-1)..MaxScoreAge}

Scored(fn, it, score) == [op |-> fn, it |-> it, score |-> score]

CallPopularityScore ==
    \E it \in ScoreItems :
        /\ last' = Scored("popularityScore", it, popularityScore(it))
        /\ UNCHANGED <<now, db, cfg, sched>>

CallHNPopularityScore ==
    \E it \in ScoreItems :
        /\ last' = Scored("hnPopularityScore", it, hnPopularityScore(it))
        /\ UNCHANGED <<now, db, cfg, sched>>

NextScore == CallPopularityScore \/ CallHNPopularityScore

SpecScore == Init /\ [][NextScore]_vars

\* -------------------------------------------- the collector specification
\* the loop bodies of both collectors within one day, with every store failure
V2EXCollectStep ==
    /\ "v2ex" \in cfg.collectors
    /\ \E it \in V2EXItems, failDay \in StoreFailures, failWeek \in StoreFailures :
           Apply(V2EXCollectItem(db, now, it, failDay, failWeek))

HNCollectStep ==
    /\ "hackernews" \in cfg.collectors
    /\ \E it \in HNItems, failDay \in StoreFailures, failWeek \in StoreFailures :
           Apply(HNCollectItem(db, now, it, failDay, failWeek))

NextCollect == V2EXCollectStep \/ HNCollectStep

SpecCollect == Init /\ [][NextCollect]_vars

\* ------------------------------------------------ the store specification
\* what a collector of the run's source hands to AddNews
StoreArgs(source) ==
    IF source = "v2ex"
    THEN {[it |-> it, score |-> popularityScore(it)] : it \in V2EXItems}
    ELSE {[it |-> it, score |-> hnPopularityScore(it)] : it \in HNItems}

StoreAddNews ==
    /\ now <= MaxWriteDay
    /\ \E source \in cfg.collectors, freq \in {"daily", "weekly"},
          fail \in StoreFailures :
           \E a \in {x \in StoreArgs(source) : ScorePositive(x.score)} :
               LET r == AddNews(db, now, source, periodKey(freq, now), a.it,
                                a.score, fail)
               IN  /\ db' = r.db
                   /\ last' = [op |-> "AddNews", source |-> source,
                               period |-> periodKey(freq, now), id |-> a.it.id,
                               it |-> a.it, score |-> a.score, err |-> r.err]
                   /\ UNCHANGED <<now, cfg, sched>>

\* the periods a caller can name: those of the days that have begun
PastPeriods == {periodKey(f, t) : f \in {"daily", "weekly"}, t \in 0..now}

StoreTopNews ==
    \E source \in cfg.collectors, period \in PastPeriods, n \in 0..(MaxId + 1) :
        /\ last' = [op |-> "TopNews", source |-> source, period |-> period,
                    n |-> n, res |-> TopNews(db, now, source, period, n, TRUE)]
        /\ UNCHANGED <<now, db, cfg, sched>>

StoreAdvance ==
    /\ now < MaxStoreDay
    /\ now' = now + 1
    /\ db' = Purge(db, now + 1)
    /\ last' = [op |-> "midnight"]
    /\ UNCHANGED <<cfg, sched>>

NextStore == StoreAddNews \/ StoreTopNews \/ StoreAdvance

SpecStore == Init /\ [][NextStore]_vars

\* ----------------------------------------------- the filter specification
\* candidate lists in score order: the id is the rank, the category is drawn
CandidateLists(categories) ==
    UNION {{[i \in 1..n |->
                [item |-> [id |-> i, title |-> TitleOf(i), node |-> cats[i],
                           replies |-> 2, points |-> 2],
                 score |-> <<1, 2>>]] : cats \in [1..n -> categories]} :
               n \in 0..MaxItems}

\* node lists of forum channels, as a configuration file can spell them
ForumNodeLists ==
    {<<>>, <<"crypto">>, <<"Crypto">>, <<" Crypto", "apple">>, <<"apple">>,
     <<"other">>}

\* node lists of Hacker News channels: list tokens, item types, or both
HNNodeLists ==
    {<<>>, <<"top">>, <<"top", "new">>, <<"ask">>, <<"top", "Ask">>,
     <<"ask", "show">>, <<" Story">>}

Filtered(fn, items, nodes, out) ==
    [op |-> fn, items |-> items, nodes |-> nodes, out |-> out]

CallFilterByNodes ==
    \E items \in CandidateLists({"crypto", "apple", "Crypto"}),
       nodes \in ForumNodeLists :
        /\ last' = Filtered("filterByNodes", items, nodes,
                            filterByNodes(items, nodes))
        /\ UNCHANGED <<now, db, cfg, sched>>

CallFilterByNodesLocal ==
    \E items \in CandidateLists({"crypto", "apple", "Crypto"}),
       nodes \in ForumNodeLists :
        /\ last' = Filtered("filterByNodesLocal", items, nodes,
                            filterByNodesLocal(items, nodes))
        /\ UNCHANGED <<now, db, cfg, sched>>

CallFilterHNTypes ==
    \E items \in CandidateLists({"story", "ask", "show"}),
       nodes \in HNNodeLists :
        /\ last' = Filtered("filterHNTypes", items, nodes,
                            filterHNTypes(items, nodes))
        /\ UNCHANGED <<now, db, cfg, sched>>

CallFilterHNTypesLocal ==
    \E items \in CandidateLists({"story", "ask", "show"}),
       nodes \in HNNodeLists :
        /\ last' = Filtered("filterHNTypesLocal", items, nodes,
                            filterHNTypesLocal(items, nodes))
        /\ UNCHANGED <<now, db, cfg, sched>>

NextFilter ==
    \/ CallFilterByNodes
    \/ CallFilterByNodesLocal
    \/ CallFilterHNTypes
    \/ CallFilterHNTypesLocal

SpecFilter == Init /\ [][NextFilter]_vars

\* ----------------------------------------------- the marker specification
\* MarkSkipped with any duration, 0 and negative included
StoreMarkSkipped ==
    \E ch \in Channels, id \in Ids, dur \in (-1)..MaxSkipDays :
        /\ db' = MarkSkipped(db, now, ch, id, dur)
        /\ last' = [op |-> "MarkSkipped", ch |-> ch, id |-> id, dur |-> dur,
                    err |-> FALSE]
        /\ UNCHANGED <<now, cfg, sched>>

StoreIsSkipped ==
    \E ch \in Channels, id \in Ids :
        /\ last' = [op |-> "IsSkipped", ch |-> ch, id |-> id,
                    res |-> IsSkipped(db, now, ch, id)]
        /\ UNCHANGED <<now, db, cfg, sched>>

NextMarks == StoreMarkSkipped \/ StoreIsSkipped \/ AdvanceDay

SpecMarks == Init /\ [][NextMarks]_vars

\* --------------------------------------------- the whole-tick specification
\* One runOnce of a collector over its configured sub-lists.  A fetch gives
\* an error or the items of the sub-list; sfail names the store command that
\* fails for one item and one period ("none" for no failure).
TickItems(source) ==
    {it \in (IF source = "v2ex" THEN V2EXItems ELSE HNItems) :
        (IF source = "v2ex" THEN it.replies ELSE it.points) \in {1, MaxCount}}

FetchOutcomes(source) ==
    {[err |-> TRUE, items |-> <<>>]}
        \cup {[err |-> FALSE, items |-> s] :
                 s \in {<<>>} \cup {<<a>> : a \in TickItems(source)}
                           \cup {<<a, b>> : a \in TickItems(source),
                                            b \in TickItems(source)}}

TickStoreFailures ==
    {[id |-> 0, period |-> "none", how |-> "none"]}
        \cup {[id |-> i, period |-> p, how |-> h] :
                 i \in Ids, p \in {"daily", "weekly"}, h \in {"set", "zadd"}}

FailFor(sfail, id, period) ==
    IF sfail.id = id /\ sfail.period = period THEN sfail.how ELSE "none"

\* the sub-lists a collector is configured with
TickListChoices(source) ==
    IF source = "v2ex" THEN {<<"crypto", "apple">>}
    ELSE {<<>>, <<"top", "ask">>}

\* part_000 lines 51-54: no configured list means the top list
EffectiveLists(source, lists) ==
    IF source = "hackernews" /\ lists = <<>> THEN <<"top">> ELSE lists

\* the inner loop over the items of one sub-list
RECURSIVE CollectItems(_, _, _, _, _)
CollectItems(source, d, t, items, sfail) ==
    IF items = <<>> THEN [db |-> d, log |-> <<>>]
    ELSE LET it == Head(items)
             failDay == FailFor(sfail, it.id, "daily")
             failWeek == FailFor(sfail, it.id, "weekly")
             r == IF source = "v2ex"
                  THEN V2EXCollectItem(d, t, it, failDay, failWeek)
                  ELSE HNCollectItem(d, t, it, failDay, failWeek)
             rest == CollectItems(source, r.db, t, Tail(items), sfail)
         IN  [db |-> rest.db, log |-> <<r.last>> \o rest.log]

\* the outer loop over the sub-lists: a failed fetch is logged and the loop
\* continues with the next sub-list
RECURSIVE CollectLists(_, _, _, _, _, _)
CollectLists(source, d, t, lists, fetched, sfail) ==
    IF lists = <<>> THEN [db |-> d, fetches |-> <<>>, log |-> <<>>]
    ELSE LET r == IF Head(fetched).err THEN [db |-> d, log |-> <<>>]
                  ELSE CollectItems(source, d, t, Head(fetched).items, sfail)
             rest == CollectLists(source, r.db, t, Tail(lists), Tail(fetched),
                                  sfail)
         IN  [db |-> rest.db,
              fetches |-> <<Head(lists)>> \o rest.fetches,
              log |-> <<r.log>> \o rest.log]

\* a tick that ends at the first failed fetch
CollectorRunOnceAborting(source, d, t, lists, fetched, sfail) ==
    LET bad == {i \in 1..Len(lists) : fetched[i].err}
        k == IF bad = {} THEN Len(lists)
             ELSE CHOOSE i \in bad : \A j \in bad : i <= j
    IN  CollectLists(source, d, t, SubSeq(lists, 1, k), SubSeq(fetched, 1, k),
                     sfail)

CollectorRunOnce(source, d, t, lists, fetched, sfail) ==
    CollectLists(source, d, t, lists, fetched, sfail)

\* the specification follows one tick a day
CollectorTick ==
    \E source \in cfg.collectors :
        /\ last.op # "tick"
        /\ \E configured \in TickListChoices(source), sfail \in TickStoreFailures :
              LET lists == EffectiveLists(source, configured)
              IN  \E fetched \in [1..Len(lists) -> FetchOutcomes(source)] :
                      LET r == CollectorRunOnce(source, db, now, lists, fetched,
                                                sfail)
                      IN  /\ db' = r.db
                          /\ last' = [op |-> "tick", source |-> source,
                                      lists |-> lists, fetched |-> fetched,
                                      sfail |-> sfail, fetches |-> r.fetches,
                                      log |-> r.log]
                          /\ UNCHANGED <<now, cfg, sched>>

SpecTick == Init /\ [][CollectorTick \/ AdvanceDay]_vars

\* ------------------------------------------------- the digest specification
\* The builder and generate over a store that any caller of AddNews has
\* written: scores of either sign, any engagement count.
SeedScores == {<<-1, 1>>, Zero, <<1, 2>>}

SeedItems(source) ==
    {it \in (IF source = "v2ex" THEN V2EXItems ELSE HNItems) :
        (IF source = "v2ex" THEN it.replies ELSE it.points) \in {0, MaxCount}}

\* AddNews of one item into the daily and the weekly ranked set
SeedAddNews ==
    \E source \in cfg.collectors, score \in SeedScores :
      \E it \in SeedItems(source) :
        LET a1 == AddNews(db, now, source, periodKey("daily", now), it, score,
                          "none")
            a2 == AddNews(a1.db, now, source, periodKey("weekly", now), it,
                          score, "none")
        IN  /\ db' = a2.db
            /\ last' = [op |-> "AddNews", source |-> source, id |-> it.id,
                        it |-> it, score |-> score, err |-> FALSE]
            /\ UNCHANGED <<now, cfg, sched>>

SpecDigest == Init /\ [][SeedAddNews \/ BuilderTick \/ Generate]_vars

\* ------------------------------------------------ the publish specification
\* the store after the publish step, lines 141-149: the step only logs
AfterPublishRollback(before, after, publish) ==
    IF publish = "failed" THEN before ELSE after

AfterPublish(before, after, publish) == after

\* The whole of NewsletterBuilder.runOnce: the tick, then the hand-over to
\* Quaily when the tick got that far.  quaily is "nil" when w.Quaily is not
\* set, else the outcome of PublishMarkdownFile.
BuilderTickPublishing ==
    \E ch \in Channels, in \in RunInputs(FALSE, BuilderFailures),
       quaily \in {"nil", "ok", "failed"} :
        LET r == runOnce(db, now, cfg, ch, in.fail, in.post, in.item)
            publish == IF r.last.stage = "done" /\ quaily # "nil" THEN quaily
                       ELSE "none"
        IN  /\ db' = AfterPublish(db, r.db, publish)
            /\ last' = [op |-> "builder", ch |-> ch, period |-> r.last.period,
                        stage |-> r.last.stage, wrote |-> r.last.wrote,
                        skipCalls |-> r.last.skipCalls, fail |-> in.fail,
                        publish |-> publish]
            /\ UNCHANGED <<now, cfg, sched>>

SpecPublish ==
    Init /\ [][V2EXCollect \/ HNCollect \/ BuilderTickPublishing \/ AdvanceDay]_vars

\* ----------------------------------------------- the command specification
\* AddNews and TopNews command by command, one call of each in flight, within
\* one day.  In this specification sched holds the place of each call.
\* a first command that adds the ranked-set entry instead of the payload
AddNewsZAddFirst(d, t, source, period, it, score) ==
    RZAdd(d, t, periodZKey(source, period), it.id, score)

\* AddNews line 45: SET of the payload
AddNewsSet(d, t, source, period, it, score) ==
    RSet(d, t, itemKey(source, it.id), Marshal(it), ItemTTLDays)

\* AddNews line 50: ZADD of the ranked-set entry
AddNewsZAdd(d, t, source, period, it, score) ==
    RZAdd(d, t, periodZKey(source, period), it.id, score)

\* AddNews up to its SET: a failed SET ends the call
AddNewsBegin ==
    /\ sched.add.pc = "idle"
    /\ \E source \in cfg.collectors, freq \in {"daily", "weekly"}, ok \in BOOLEAN :
           \E a \in {x \in StoreArgs(source) : ScorePositive(x.score)} :
               LET period == periodKey(freq, now)
               IN  IF ok
                   THEN /\ db' = AddNewsSet(db, now, source, period, a.it, a.score)
                        /\ sched' = [sched EXCEPT !.add =
                                        [pc |-> "zadd", source |-> source,
                                         period |-> period, it |-> a.it,
                                         score |-> a.score]]
                        /\ last' = [op |-> "SET", err |-> FALSE]
                   ELSE /\ last' = [op |-> "AddNews", err |-> TRUE]
                        /\ UNCHANGED <<db, sched>>
    /\ UNCHANGED <<now, cfg>>

\* the ZADD of the call in flight, which ends the call
AddNewsEnd ==
    /\ sched.add.pc = "zadd"
    /\ \E ok \in BOOLEAN :
           /\ db' = IF ok
                    THEN AddNewsZAdd(db, now, sched.add.source, sched.add.period,
                                     sched.add.it, sched.add.score)
                    ELSE db
           /\ last' = [op |-> "AddNews", err |-> ~ok]
    /\ sched' = [sched EXCEPT !.add = [pc |-> "idle"]]
    /\ UNCHANGED <<now, cfg>>

\* TopNews line 55: ZREVRANGE reads the ids
TopNewsBegin ==
    /\ sched.top.pc = "idle"
    /\ \E source \in cfg.collectors, freq \in {"daily", "weekly"}, n \in 1..MaxId :
           sched' = [sched EXCEPT !.top =
                        [pc |-> "get", source |-> source,
                         rest |-> ZRevRangeWithScores(
                                      db, now, periodZKey(source, periodKey(freq, now)),
                                      0, n - 1)]]
    /\ last' = [op |-> "ZREVRANGE", err |-> FALSE]
    /\ UNCHANGED <<now, db, cfg>>

\* TopNews lines 60-70: the GET of the next id, or the return after the last
TopNewsGet ==
    /\ sched.top.pc = "get"
    /\ IF sched.top.rest = <<>>
       THEN /\ sched' = [sched EXCEPT !.top = [pc |-> "idle"]]
            /\ last' = [op |-> "TopNews", err |-> FALSE]
       ELSE IF Live(db, now, itemKey(sched.top.source, Head(sched.top.rest).member))
       THEN /\ sched' = [sched EXCEPT !.top.rest = Tail(@)]
            /\ last' = [op |-> "GET", err |-> FALSE]
       ELSE /\ sched' = [sched EXCEPT !.top = [pc |-> "idle"]]
            /\ last' = [op |-> "TopNews", err |-> TRUE]
    /\ UNCHANGED <<now, db, cfg>>

InitCmds ==
    /\ now = 0
    /\ db = <<>>
    /\ last = [op |-> "start"]
    /\ cfg \in Deployments
    /\ sched = [add |-> [pc |-> "idle"], top |-> [pc |-> "idle"]]

SpecCmds ==
    InitCmds /\ [][AddNewsBegin \/ AddNewsEnd \/ TopNewsBegin \/ TopNewsGet]_vars

\* ----------------------------------------------- the parser specification
\* A file is the sequence of its lines, each ended by a newline.  The lines
\* of the model: the delimiter, a line that begins with it, an indented
\* delimiter, two YAML key lines and a line of text.
FileLines == {"---", "----", " ---", "a: 1", "b: 2", "text"}

RECURSIVE FilesOf(_)
FilesOf(n) ==
    IF n = 0 THEN {<<>>}
    ELSE FilesOf(n - 1)
             \cup {f \o <<l>> : f \in {g \in FilesOf(n - 1) : Len(g) = n - 1},
                                l \in FileLines}

\* br.Peek(3) == "---": the first three bytes of the file
PeekIsDashes(file) == file # <<>> /\ file[1] \in {"---", "----"}

\* the number of lines the frontmatter loop writes to fmBuf, lines 48-61: it
\* stops before the first line that is "---" once trimmed, or at end of file
RECURSIVE FrontmatterLength(_)
FrontmatterLength(lines) ==
    IF lines = <<>> THEN 0
    ELSE IF TrimSpace(Head(lines)) = "---" THEN 0
    ELSE 1 + FrontmatterLength(Tail(lines))

\* the key of a YAML "key: value" line
YamlKey(line) == IF line = "a: 1" THEN "a" ELSE "b"

\* yaml.Unmarshal into a map: a line that is no "key: value" line, or a key
\* given twice, is an error
YamlUnmarshal(lines) ==
    IF \/ \E i \in 1..Len(lines) : lines[i] \notin {"a: 1", "b: 2"}
       \/ \E m, k \in 1..Len(lines) : m # k /\ YamlKey(lines[m]) = YamlKey(lines[k])
    THEN [err |-> TRUE, keys |-> {}]
    ELSE [err |-> FALSE, keys |-> {YamlKey(lines[i]) : i \in 1..Len(lines)}]

Document(err, frontmatter, body) ==
    [err |-> err, frontmatter |-> frontmatter, body |-> body]

\* openOK is false when os.Open fails
ParseFile(file, openOK) ==
    IF ~openOK THEN Document(TRUE, {}, <<>>)
    ELSE IF ~PeekIsDashes(file) THEN Document(FALSE, {}, file)
    ELSE LET rest == Tail(file)
             n == FrontmatterLength(rest)
             fm == YamlUnmarshal(SubSeq(rest, 1, n))
             body == SubSeq(rest, n + 2, Len(rest))
         IN  IF fm.err THEN Document(TRUE, {}, <<>>)
             ELSE Document(FALSE, fm.keys, body)

CallParseFile ==
    \E file \in FilesOf(MaxLines), openOK \in BOOLEAN :
        /\ last' = [op |-> "ParseFile", file |-> file, openOK |-> openOK,
                    doc |-> ParseFile(file, openOK)]
        /\ UNCHANGED <<now, db, cfg, sched>>

NextParse == CallParseFile

SpecParse == Init /\ [][NextParse]_vars

\* -------------------------------------------------- the key specification
\* Key strings character by character: a text is the sequence of its
\* characters, and a word of the format that no argument can contain in the
\* model ("news", "item", ...) counts as one character.
RECURSIVE Texts(_, _)
\* all texts of 1..n characters of the alphabet
Texts(alphabet, n) ==
    IF n = 0 THEN {}
    ELSE {<<c>> : c \in alphabet}
             \cup {t \o <<c>> : t \in Texts(alphabet, n - 1), c \in alphabet}

\* source and channel names come from the configuration: any text
NameTexts == Texts({"a", "1", ":"}, MaxNameLen)

\* item ids are decimal numbers: fmt.Sprintf("%d", t.ID)
IdTexts == Texts({"1", "2"}, MaxNameLen)

\* period keys are "2006-01-02" or "%04d-W%02d": digits, "-" and "W"
PeriodTexts == {<<"1", "-", "1">>, <<"1", "-", "2">>, <<"1", "-", "W", "1">>}

\* fmt.Sprintf("news:source:%s:period:%s", source, period)
periodZKeyText(source, period) ==
    <<"news", ":", "source", ":">> \o source \o <<":", "period", ":">> \o period

\* fmt.Sprintf("news:item:%s:%s", source, id)
itemKeyText(source, id) == <<"news", ":", "item", ":">> \o source \o <<":">> \o id

\* fmt.Sprintf("news:published:%s:%s", channel, period)
publishedKeyText(channel, period) ==
    <<"news", ":", "published", ":">> \o channel \o <<":">> \o period

\* a key format without the separator between channel and id
skipKeyTextUnseparated(channel, id) ==
    <<"news", ":", "skip", ":">> \o channel \o id

\* fmt.Sprintf("news:skip:%s:%s", channel, id)
skipKeyText(channel, id) == <<"news", ":", "skip", ":">> \o channel \o <<":">> \o id

\* the entries of the four axes
Entries ==
    {[axis |-> "ranked", a |-> x, b |-> y] : x \in NameTexts, y \in PeriodTexts}
        \cup {[axis |-> "item", a |-> x, b |-> y] : x \in NameTexts, y \in IdTexts}
        \cup {[axis |-> "published", a |-> x, b |-> y] :
                 x \in NameTexts, y \in PeriodTexts}
        \cup {[axis |-> "skip", a |-> x, b |-> y] : x \in NameTexts, y \in IdTexts}

KeyText(e) ==
    CASE e.axis = "ranked" -> periodZKeyText(e.a, e.b)
      [] e.axis = "item" -> itemKeyText(e.a, e.b)
      [] e.axis = "published" -> publishedKeyText(e.a, e.b)
      [] e.axis = "skip" -> skipKeyText(e.a, e.b)

\* two entries are given
InitKeys ==
    /\ now = 0
    /\ db = <<>>
    /\ cfg = CHOOSE c \in Deployments : c.collectors = {"hackernews"}
    /\ sched = SchedInit(cfg)
    /\ \E e1 \in Entries, e2 \in Entries :
           last = [op |-> "entries", e1 |-> e1, e2 |-> e2]

\* the store forms the keys of the two entries
CallKeys ==
    /\ last.op = "entries"
    /\ last' = [op |-> "keys", e1 |-> last.e1, e2 |-> last.e2,
                k1 |-> KeyText(last.e1), k2 |-> KeyText(last.e2)]
    /\ UNCHANGED <<now, db, cfg, sched>>

NextKeys == CallKeys

SpecKeys == InitKeys /\ [][NextKeys]_vars

\* ------------------------------------- the manager and the worker loops
\* a deployment with two channels, so that two builders can fail to start
TwoChannels ==
    [summarizer |-> FALSE, collectors |-> {"v2ex"},
     channels |-> [ch \in {"forum", "tech"} |->
                      IF ch = "forum" THEN Channel("v2ex", "daily", 1, 1, <<>>, 2)
                      ELSE Channel("v2ex", "weekly", 2, 1, <<"apple">>, 1)]]

\* a Manager that was given builders only
BuildersOnly ==
    [summarizer |-> FALSE, collectors |-> {},
     channels |-> [ch \in {"forum", "tech"} |->
                      Channel("v2ex", "daily", 1, 1, <<>>, 1)]]

\* two channels on the same source with the same period
SharedPeriod ==
    [summarizer |-> FALSE, collectors |-> {"v2ex"},
     channels |-> [ch \in {"forum", "tech"} |->
                      IF ch = "forum" THEN Channel("v2ex", "daily", 1, 1, <<>>, 2)
                      ELSE Channel("v2ex", "daily", 2, 1, <<"crypto">>, 1)]]

RunDeployments == Deployments \cup {TwoChannels, BuildersOnly, SharedPeriod}

IsBuilder(w) == w \in DOMAIN cfg.channels

\* what Manager.Start returns once the error channel is closed: the first
\* error sent, or nil
ManagerResultNil(errs) == "nil"

ManagerResult(errs) == IF errs = <<>> THEN "nil" ELSE Head(errs)

\* the fetch of a collector tick: one item of the first id, or, with the
\* context cancelled, nothing
RunFetch(w) == {it \in (IF w = "v2ex" THEN V2EXItems ELSE HNItems) : it.id = 1}

\* The effect of one runOnce on the store.  With the context cancelled every
\* call that takes the context fails: the builder stops at IsPublished, the
\* collector's fetch returns nothing.
TickEffect(w, d, it) ==
    IF IsBuilder(w)
    THEN runOnce(d, now, cfg, w,
                 IF sched.cancelled THEN Fail("ispublished", 0) ELSE NoFail,
                 "err", "err").db
    ELSE IF sched.cancelled THEN d
    ELSE IF w = "v2ex" THEN V2EXCollectItem(d, now, it, "none", "none").db
    ELSE HNCollectItem(d, now, it, "none", "none").db

Ticked(w, first) ==
    [op |-> "tick", worker |-> w, first |-> first, ctxDone |-> sched.cancelled]

\* signal.NotifyContext: the signal arrives, at any moment
Cancel ==
    /\ ~sched.cancelled
    /\ sched' = [sched EXCEPT !.cancelled = TRUE]
    /\ UNCHANGED <<now, db, last, cfg>>

\* Manager.Start lines 20-28: one goroutine per worker
MgrSpawn ==
    /\ sched.mgr = "spawn"
    /\ sched' = [sched EXCEPT !.mgr = "wait_ctx",
                              !.pc = [w \in DOMAIN sched.pc |-> "spawned"]]
    /\ UNCHANGED <<now, db, last, cfg>>

\* a manager that also goes on once every worker has returned
MgrCtxDoneOrIdle ==
    /\ sched.mgr = "wait_ctx"
    /\ sched.cancelled \/ \A w \in DOMAIN sched.pc : sched.pc[w] = "returned"
    /\ sched' = [sched EXCEPT !.mgr = "wait_wg"]
    /\ UNCHANGED <<now, db, last, cfg>>

\* line 30: <-ctx.Done()
MgrCtxDone ==
    /\ sched.mgr = "wait_ctx"
    /\ sched.cancelled
    /\ sched' = [sched EXCEPT !.mgr = "wait_wg"]
    /\ UNCHANGED <<now, db, last, cfg>>

\* lines 31-39: wg.Wait(), close(errs), report the first error
MgrReturn ==
    /\ sched.mgr = "wait_wg"
    /\ \A w \in DOMAIN sched.pc : sched.pc[w] = "returned"
    /\ sched' = [sched EXCEPT !.mgr = "done",
                              !.result = ManagerResult(sched.errs)]
    /\ UNCHANGED <<now, db, last, cfg>>

\* NewsletterBuilder.Start lines 44-48: MkdirAll fails, Start returns the error
\* and the goroutine sends it
BuilderStartFails ==
    \E w \in DOMAIN sched.pc :
        /\ IsBuilder(w)
        /\ sched.pc[w] = "spawned"
        /\ sched' = [sched EXCEPT !.pc[w] = "returned", !.ret[w] = "err",
                                  !.errs = Append(@, <<"mkdir", w>>)]
        /\ last' = [op |-> "start_failed", worker |-> w]
        /\ UNCHANGED <<now, db, cfg>>

\* the initial run of a worker; the forum collector has made its ticker before
WorkerFirstRun ==
    \E w \in DOMAIN sched.pc :
        /\ sched.pc[w] = "spawned"
        /\ \E it \in RunFetch(w) : db' = TickEffect(w, db, it)
        /\ sched' = [sched EXCEPT !.pc[w] = "first",
                                  !.ticker[w] = IF w = "v2ex" THEN "armed" ELSE @]
        /\ last' = Ticked(w, TRUE)
        /\ UNCHANGED <<now, cfg>>

\* runOnce returns; after the initial run the other workers make their ticker
WorkerRunEnds ==
    \E w \in DOMAIN sched.pc :
        /\ sched.pc[w] \in {"first", "running"}
        /\ sched' = [sched EXCEPT !.pc[w] = "select",
                                  !.ticker[w] = IF @ = "off" THEN "armed" ELSE @]
        /\ UNCHANGED <<now, db, last, cfg>>

\* the interval passes: the ticker sends a tick unless one is still waiting
TimerFires ==
    \E w \in DOMAIN sched.pc :
        /\ sched.ticker[w] = "armed"
        /\ sched' = [sched EXCEPT !.ticker[w] = "fired"]
        /\ UNCHANGED <<now, db, last, cfg>>

\* a worker that starts runOnce in a goroutine of its own for every tick
WorkerSelectTickAsync ==
    \E w \in DOMAIN sched.pc :
        /\ sched.pc[w] \in {"select", "running"}
        /\ sched.ticker[w] = "fired"
        /\ \E it \in RunFetch(w) : db' = TickEffect(w, db, it)
        /\ sched' = [sched EXCEPT !.pc[w] = "running", !.ticker[w] = "armed"]
        /\ last' = Ticked(w, FALSE)
        /\ UNCHANGED <<now, cfg>>

\* select takes case <-t.C: whenever a tick is waiting, whatever ctx.Done() is
WorkerSelectTick ==
    \E w \in DOMAIN sched.pc :
        /\ sched.pc[w] = "select"
        /\ sched.ticker[w] = "fired"
        /\ \E it \in RunFetch(w) : db' = TickEffect(w, db, it)
        /\ sched' = [sched EXCEPT !.pc[w] = "running", !.ticker[w] = "armed"]
        /\ last' = Ticked(w, FALSE)
        /\ UNCHANGED <<now, cfg>>

\* select takes case <-ctx.Done(): Start returns nil and stops its ticker
WorkerSelectDone ==
    \E w \in DOMAIN sched.pc :
        /\ sched.pc[w] = "select"
        /\ sched.cancelled
        /\ sched' = [sched EXCEPT !.pc[w] = "returned", !.ret[w] = "nil",
                                  !.ticker[w] = "off"]
        /\ last' = [op |-> "returned", worker |-> w]
        /\ UNCHANGED <<now, db, cfg>>

InitRun ==
    /\ now = 0
    /\ db = <<>>
    /\ last = [op |-> "start"]
    /\ cfg \in RunDeployments
    /\ sched = SchedInit(cfg)

NextRun ==
    \/ Cancel
    \/ MgrSpawn
    \/ MgrCtxDone
    \/ MgrReturn
    \/ BuilderStartFails
    \/ WorkerFirstRun
    \/ WorkerRunEnds
    \/ TimerFires
    \/ WorkerSelectTick
    \/ WorkerSelectDone

SpecRun == InitRun /\ [][NextRun]_vars

\* ======================================================== the properties
\* the ids of the items a rendered text contains
RenderedIds(md) ==
    IF md = <<>> THEN {} ELSE {md[1].items[k].id : k \in 1..Len(md[1].items)}

\* the store without any published flag and any skip marker
WithoutMarks(d) ==
    [k \in {x \in DOMAIN d : x[1] \notin {"news:published:", "news:skip:"}} |-> d[k]]

\* C1: once the published flag of a channel's current period is set, it stays
\* set for as long as the period lasts, and a builder tick of that channel in
\* that period writes no file, calls neither MarkPublished nor MarkSkipped and
\* leaves the store as it was.
C1_PublishedTickIsNoOp ==
    [][\A ch \in Channels :
         LET freq == cfg.channels[ch].frequency
             key == publishedKey(ch, periodKey(freq, now))
         IN  (Live(db, now, key) /\ db[key].val = "1") =>
                 /\ periodKey(freq, now') = periodKey(freq, now) =>
                        (Live(db', now', key) /\ db'[key].val = "1")
                 /\ (last'.op = "builder" /\ last'.ch = ch /\ now' = now) =>
                        /\ db' = db
                        /\ ~last'.wrote
                        /\ ~last'.pubCall
                        /\ last'.skipCalls = <<>>]_vars

\* a tick has found its period published, after an earlier tick published it
C1_Witness ==
    /\ last.op = "builder"
    /\ last.stage = "published"
    /\ Live(db, now, publishedKey(last.ch, last.period))

\* C2: no item rendered by a builder tick had a live skip marker of the
\* channel when the tick began.
C2_SkippedNeverRendered ==
    [][last'.op = "builder" =>
         \A id \in RenderedIds(last'.md) :
             ~Live(db, now, skipKey(last'.ch, id))]_vars

\* a tick has rendered a digest without the top-scored entry of its period,
\* which carries a live skip marker set by an earlier tick
C2_Witness ==
    /\ last.op = "builder"
    /\ last.stage = "done"
    /\ RenderedIds(last.md) # {}
    /\ LET z == periodZKey(cfg.channels[last.ch].source, last.period)
       IN  /\ Live(db, now, z)
           /\ First(db[z].val) \notin RenderedIds(last.md)
           /\ Live(db, now, skipKey(last.ch, First(db[z].val)))

\* C3: a builder tick that is left with fewer candidates than MinItems writes
\* no file, calls neither MarkPublished nor MarkSkipped and leaves the store,
\* published flags and skip markers included, as it was.
C3_BelowMinNoEffects ==
    [][(last'.op = "builder"
          /\ Len(last'.selected) < cfg.channels[last'.ch].minItems) =>
         /\ db' = db
         /\ ~last'.wrote
         /\ ~last'.pubCall
         /\ last'.skipCalls = <<>>]_vars

\* a tick has stopped at the gate with some candidates, but too few
C3_Witness ==
    /\ last.op = "builder"
    /\ last.stage = "below_min"
    /\ Len(last.selected) >= 1
    /\ Len(last.selected) < cfg.channels[last.ch].minItems

\* C4: after a builder tick that publishes, the ids passed to MarkSkipped are
\* the ids of the items in the rendered digest, which are the first
\* min(len, TopN) candidates.
C4_MarkedAreRendered ==
    (last.op = "builder" /\ last.stage = "done") =>
        /\ Range(last.skipCalls) = RenderedIds(last.md)
        /\ last.skipCalls =
               SubSeq(last.selected, 1,
                      Min(Len(last.selected), cfg.channels[last.ch].topN))

\* C7: whatever its inputs, a force-generate run leaves the store as it is,
\* calls neither MarkPublished nor MarkSkipped, and does what it would do on
\* the same store without any published flag and skip marker.
C7_GenerateIgnoresMarks ==
    \A ch \in Channels, input \in {StoreMode} \cup FileModes,
       in \in RunInputs(cfg.summarizer, GenerateFailures) :
        LET r == generate(db, now, cfg, ch, input, in.fail, in.post, in.item)
        IN  /\ r.db = db
            /\ ~r.last.pubCall
            /\ r.last.skipCalls = <<>>
            /\ r.last = generate(WithoutMarks(db), now, cfg, ch, input,
                                 in.fail, in.post, in.item).last

\* a force-generate run has written a digest for a period that is published,
\* with an item in it that carries a live skip marker
C7_Witness ==
    /\ last.op = "generate"
    /\ last.stage = "done"
    /\ Live(db, now, publishedKey(last.ch, last.period))
    /\ \E id \in RenderedIds(last.md) : Live(db, now, skipKey(last.ch, id))

\* C8: a rendered digest with at least one item has a non-empty summary; when
\* no summarizer is configured the summary is the fallback built from the top
\* titles and every description is empty; on the builder path and on the
\* force-generate path.
C8_SummaryNeverEmpty ==
    (last.op \in {"builder", "generate"} /\ RenderedIds(last.md) # {}) =>
        LET data == last.md[1]
            k == Min(FallbackTitles, Len(data.items))
            titles == [i \in 1..k |-> data.items[i].title]
        IN  /\ data.summary # <<>>
            /\ ~cfg.summarizer =>
                   /\ data.summary =
                          <<"Top highlights: ">> \o Join(titles, ", ") \o <<".">>
                   /\ \A i \in 1..Len(data.items) : data.items[i].desc = ""

\* the entries ZREVRANGE 0 n-1 hands to a TopNews call, as the store holds them
RangeRead(source, period, n) ==
    ZRevRangeWithScores(db, now, periodZKey(source, period), 0, n - 1)

\* C5: a TopNews call whose range holds an entry without payload returns no
\* error, and returns the entries whose payload is there, in order.
C5_DanglingEntrySkipped ==
    (last.op = "TopNews"
       /\ \E e \in Range(RangeRead(last.source, last.period, last.n)) :
              ~Live(db, now, itemKey(last.source, e.member))) =>
        LET zs == RangeRead(last.source, last.period, last.n)
            Has(e) == Live(db, now, itemKey(last.source, e.member))
            rest == SelectSeq(zs, Has)
        IN  /\ ~last.res.err
            /\ IdsOf(last.res.items) = [i \in 1..Len(rest) |-> rest[i].member]

\* C6: a TopNews call with n >= 0 that returns items returns at most n, and
\* they are the first min(n, size) entries of the ranked set in descending
\* score order, each with the score the set holds for it.
C6_TopNewsAtMostN ==
    (last.op = "TopNews" /\ ~last.res.err) =>
        LET z == periodZKey(last.source, last.period)
            all == IF Live(db, now, z) THEN RevOrder(db[z].val) ELSE <<>>
            k == Min(last.n, Len(all))
        IN  /\ Len(last.res.items) <= last.n
            /\ Len(last.res.items) = k
            /\ \A i \in 1..k :
                   /\ last.res.items[i].item.id = all[i].member
                   /\ last.res.items[i].score = db[z].val[all[i].member]
                   /\ i < k => ~ScoreGT(all[i + 1].score, all[i].score)

\* C9: an engagement count of 1 or less scores exactly 0 at every age, a
\* creation time in the future included, with both scoring functions.
C9_LowCountScoresZero ==
    /\ (last.op = "popularityScore" /\ last.it.replies <= 1) =>
           last.score = <<0, 1>>
    /\ (last.op = "hnPopularityScore" /\ last.it.points <= 1) =>
           last.score = <<0, 1>>

\* a count of exactly 1 has been scored for an item created in the future
C9_Witness ==
    /\ last.op \in {"popularityScore", "hnPopularityScore"}
    /\ last.it.replies = 1
    /\ last.it.points = 1
    /\ last.it.age < 0
    /\ last.score = <<0, 1>>

\* C10: every entry of every ranked set has a score above 0, every stored
\* payload is of an item with an engagement count above 1, and a collector
\* makes no AddNews call for an item whose count is 1 or less.
C10_OnlyPositiveScoresStored ==
    /\ \A key \in DOMAIN db :
           /\ db[key].kind = "zset" =>
                  \A m \in DOMAIN db[key].val : db[key].val[m][1] > 0
           /\ key[1] = "news:item:" =>
                  IF key[2] = "hackernews" THEN db[key].val[2].points > 1
                  ELSE db[key].val[2].replies > 1
    /\ (last.op = "collect" /\ last.count <= 1) => last.calls = <<>>

\* a collector has dropped an item of count 1 or less while the store holds
\* what it wrote for others
C10_Witness ==
    /\ last.op = "collect"
    /\ last.count <= 1
    /\ last.calls = <<>>
    /\ \E key \in DOMAIN db : db[key].kind = "zset"

\* C11: a successful AddNews leaves the payload of its item and the score of
\* its id in the ranked set as given by this call, whatever was there before,
\* and leaves every other member as it was; a successful call that repeats
\* the arguments of the successful call right before it changes neither the
\* payload nor the ranked set.
C11_AddNewsIdempotent ==
    [][(last'.op = "AddNews" /\ ~last'.err) =>
         LET z == periodZKey(last'.source, last'.period)
             k == itemKey(last'.source, last'.id)
             old == IF Live(db, now, z) THEN db[z].val ELSE <<>>
         IN  /\ db'[k].val = Marshal(last'.it)
             /\ DOMAIN db'[z].val = DOMAIN old \cup {last'.id}
             /\ \A m \in DOMAIN db'[z].val :
                    db'[z].val[m] = IF m = last'.id THEN last'.score ELSE old[m]
             /\ (last.op = "AddNews" /\ ~last.err
                   /\ last.source = last'.source /\ last.period = last'.period
                   /\ last.it = last'.it /\ last.score = last'.score) =>
                    (db'[k].val = db[k].val /\ db'[z].val = db[z].val)]_vars

\* the same id has been stored with two different scores: the payload holds
\* the item of the last call while another period's set holds the earlier score
C11_Witness ==
    /\ last.op = "AddNews"
    /\ ~last.err
    /\ db[periodZKey(last.source, last.period)].val[last.id] = last.score
    /\ db[itemKey(last.source, last.id)].val = Marshal(last.it)
    /\ \E key \in DOMAIN db :
           /\ db[key].kind = "zset"
           /\ last.id \in DOMAIN db[key].val
           /\ db[key].val[last.id] # last.score

\* C12: filterByNodes and filterByNodesLocal return the candidates unchanged
\* for an empty node list, and otherwise exactly the candidates, in their
\* original order, whose category equals one of the configured names (read
\* without surrounding blanks) when letter case is ignored.
C12_FilterByNodesExact ==
    (last.op \in {"filterByNodes", "filterByNodesLocal"}) =>
        LET Named(ws) == \E i \in 1..Len(last.nodes) :
                             ToLower(ws.item.node)
                                 = ToLower(TrimSpace(last.nodes[i]))
        IN  last.out = IF last.nodes = <<>> THEN last.items
                       ELSE SelectSeq(last.items, Named)

\* filter [crypto] over the categories crypto, apple, crypto (in any letter
\* case) has kept exactly the first and the third candidate
C12_Witness ==
    /\ last.op = "filterByNodes"
    /\ last.nodes = <<"crypto">>
    /\ Len(last.items) = 3
    /\ last.items[1].item.node = "crypto"
    /\ last.items[2].item.node = "apple"
    /\ last.items[3].item.node = "Crypto"
    /\ IdsOf(last.out) = <<1, 3>>

\* C13: filterHNTypes and filterHNTypesLocal return the candidates unchanged
\* when the node list names none of the item types ask, show, job, story, and
\* otherwise exactly the candidates, in their original order, whose category
\* is one of the item types the list names.
C13_FilterHNTypesExact ==
    (last.op \in {"filterHNTypes", "filterHNTypesLocal"}) =>
        LET types == {t \in {"ask", "show", "job", "story"} :
                         \E i \in 1..Len(last.nodes) :
                             ToLower(TrimSpace(last.nodes[i])) = t}
            Typed(ws) == ToLower(ws.item.node) \in types
        IN  last.out = IF types = {} THEN last.items
                       ELSE SelectSeq(last.items, Typed)

\* a list of list tokens only has passed stories, asks and shows through
C13_Witness ==
    /\ last.op = "filterHNTypes"
    /\ last.nodes = <<"top", "new">>
    /\ Len(last.items) = 3
    /\ last.out = last.items

\* C14: when Manager.Start returns, the context is cancelled and every
\* worker's Start has returned; what it returns is an error exactly when some
\* worker returned one, and is then the error of one of those workers; a
\* worker whose Start has returned is never started again.
C14_ManagerWaitsAndReports ==
    [][/\ sched'.mgr = "done" =>
              /\ sched'.cancelled
              /\ \A w \in DOMAIN sched'.pc : sched'.pc[w] = "returned"
              /\ (sched'.result # "nil") <=>
                     (\E w \in DOMAIN sched'.ret : sched'.ret[w] = "err")
              /\ sched'.result # "nil" =>
                     \E w \in DOMAIN sched'.ret :
                         sched'.ret[w] = "err" /\ sched'.result = <<"mkdir", w>>
       /\ \A w \in DOMAIN sched.pc :
              sched.pc[w] = "returned" =>
                  (sched'.pc[w] = "returned" /\ sched'.ret[w] = sched.ret[w])]_vars

\* Manager.Start has returned one error although two workers returned one
C14_Witness ==
    /\ sched.mgr = "done"
    /\ sched.result # "nil"
    /\ Cardinality({w \in DOMAIN sched.ret : sched.ret[w] = "err"}) = 2
    /\ \E w \in DOMAIN sched.ret : sched.ret[w] = "nil"

\* C15: a tick chosen by a worker's select (any run but the initial one) never
\* begins with the context already cancelled.
C15_NoTickAfterCancel ==
    (last.op = "tick" /\ ~last.first) => ~last.ctxDone

\* C16: two different entries among ranked sets (source, period), payloads
\* (source, id), published flags (channel, period) and skip markers
\* (channel, id) never get the same key string.
C16_KeysCollisionFree ==
    (last.op = "keys" /\ last.e1 # last.e2) => last.k1 # last.k2

\* two skip markers whose channel names differ by a trailing ":" and whose
\* ids are the same have got different keys
C16_Witness ==
    /\ last.op = "keys"
    /\ last.e1 = [axis |-> "skip", a |-> <<"a", ":">>, b |-> <<"1">>]
    /\ last.e2 = [axis |-> "skip", a |-> <<"a">>, b |-> <<"1">>]
    /\ last.k1 # last.k2

\* C17: for a count above 1 and an age of 0 or more the score is
\* (count - 1) / (age + 2)^1.8, and it is greater than the score of the same
\* count at every greater age; with both scoring functions.
C17_ScoreDecreasesWithAge ==
    /\ (last.op = "popularityScore" /\ last.it.replies > 1 /\ last.it.age >= 0) =>
           /\ last.score = <<last.it.replies - 1, last.it.age + 2>>
           /\ \A b \in (last.it.age + 1)..MaxScoreAge :
                  ScoreGT(last.score, popularityScore([last.it EXCEPT !.age = b]))
    /\ (last.op = "hnPopularityScore" /\ last.it.points > 1 /\ last.it.age >= 0) =>
           /\ last.score = <<last.it.points - 1, last.it.age + 2>>
           /\ \A b \in (last.it.age + 1)..MaxScoreAge :
                  ScoreGT(last.score, hnPopularityScore([last.it EXCEPT !.age = b]))

\* the largest count has been scored at age 0, with greater ages to compare
C17_Witness ==
    /\ last.op = "hnPopularityScore"
    /\ last.it.points = MaxCount
    /\ last.it.age = 0
    /\ last.score = <<MaxCount - 1, 2>>
    /\ MaxScoreAge >= 2

\* C18: MarkSkipped with a duration of 0 or less succeeds and leaves the
\* store as it was; with a duration d above 0 it succeeds and leaves a marker
\* for (channel, id) that expires d days later, and nothing else changed;
\* IsSkipped answers true exactly while the marker is there and has not
\* expired.
C18_MarkSkippedGuard ==
    [][/\ last'.op = "MarkSkipped" =>
              LET key == skipKey(last'.ch, last'.id)
              IN  /\ ~last'.err
                  /\ last'.dur <= 0 => db' = db
                  /\ last'.dur > 0 =>
                         /\ key \in DOMAIN db'
                         /\ db'[key].exp = now + last'.dur
                         /\ \A k \in DOMAIN db' \ {key} :
                                k \in DOMAIN db /\ db'[k] = db[k]
                         /\ DOMAIN db \subseteq DOMAIN db'
       /\ last'.op = "IsSkipped" =>
              LET key == skipKey(last'.ch, last'.id)
              IN  last'.res = (key \in DOMAIN db /\ db[key].exp # 0
                                 /\ now < db[key].exp)]_vars

\* a call with a duration of 0 or less has left a live marker as it was: the
\* marker set on day 0 for two days is still the one read on day 1
C18_Witness ==
    /\ last.op = "MarkSkipped"
    /\ last.dur <= 0
    /\ now = 1
    /\ skipKey(last.ch, last.id) \in DOMAIN db
    /\ db[skipKey(last.ch, last.id)].exp = 2

\* C19: of a file that could be opened, ParseFile returns an empty
\* frontmatter and the whole file as body when the first line is not "---";
\* when the first line is "---" and a later line is exactly "---", with YAML
\* key lines in between, it returns the keys of the lines in between as
\* frontmatter and the lines after that closing line as body.
C19_ParseFilePartitions ==
    (last.op = "ParseFile" /\ last.openOK) =>
        LET file == last.file
            Closing == {j \in 2..Len(file) : file[j] = "---"}
            j == CHOOSE x \in Closing : \A y \in Closing : x <= y
        IN  /\ (file = <<>> \/ file[1] # "---") =>
                   /\ ~last.doc.err
                   /\ last.doc.frontmatter = {}
                   /\ last.doc.body = file
            /\ (file # <<>> /\ file[1] = "---" /\ Closing # {}
                  /\ \A i \in 2..(j - 1) : file[i] \in {"a: 1", "b: 2"}
                  /\ \A m, k \in 2..(j - 1) : m # k => file[m] # file[k]) =>
                   /\ ~last.doc.err
                   /\ last.doc.frontmatter = {YamlKey(file[i]) : i \in 2..(j - 1)}
                   /\ last.doc.body = SubSeq(file, j + 1, Len(file))

\* C20: a builder tick whose renderer failed (the tick got past the
\* minimum-items gate and its rendered text is empty) writes no output file,
\* does not call MarkPublished and calls MarkSkipped for no item.
C20_RenderIsHardGate ==
    (/\ last.op = "builder"
     /\ last.stage \in {"done", "err_write", "err_markpublished"}
     /\ last.md = <<>>) =>
        /\ ~last.wrote
        /\ ~last.pubCall
        /\ last.skipCalls = <<>>

\* C21: in a builder tick MarkPublished is called only after the file was
\* written, and MarkSkipped only after MarkPublished set the flag; a tick
\* whose write or whose MarkPublished failed calls MarkSkipped for no item
\* and leaves the store as it was, so it creates no skip marker.
C21_EffectsInOrder ==
    [][last'.op = "builder" =>
          /\ last'.pubCall => last'.wrote
          /\ last'.skipCalls # <<>> =>
                 /\ last'.pubCall
                 /\ Live(db', now', publishedKey(last'.ch, last'.period))
          /\ last'.stage = "err_write" => ~last'.wrote /\ ~last'.pubCall
          /\ last'.stage \in {"err_write", "err_markpublished"} =>
                 /\ last'.skipCalls = <<>>
                 /\ \A id \in Ids :
                        Live(db', now', skipKey(last'.ch, id))
                            => Live(db, now, skipKey(last'.ch, id))]_vars

\* a tick with candidates to mark has stopped at a failed MarkPublished
C21_Witness ==
    /\ last.op = "builder"
    /\ last.stage = "err_markpublished"
    /\ last.selected # <<>>
    /\ last.wrote

\* C22: a collector of either source makes, for every fetched item with a
\* score above 0, one AddNews call for the daily ranked set and one for the
\* weekly ranked set, whatever the outcome of the daily call.
C22_BothPeriodsAttempted ==
    (last.op = "collect" /\ ScorePositive(last.score)) =>
        last.calls = <<periodKey("daily", now), periodKey("weekly", now)>>

\* C23: a collector tick fetches every configured sub-list, in order,
\* whatever fetch and store failures occur; every item of every sub-list whose
\* fetch succeeded goes through the loop body, with a write attempt when its
\* score is above 0; and every such item that no store failure concerns is in
\* the store after the tick, in the daily and in the weekly ranked set.
C23_TickRunsToEnd ==
    last.op = "tick" =>
        /\ last.fetches = last.lists
        /\ Len(last.log) = Len(last.lists)
        /\ \A i \in 1..Len(last.lists) :
               IF last.fetched[i].err THEN last.log[i] = <<>>
               ELSE /\ Len(last.log[i]) = Len(last.fetched[i].items)
                    /\ \A k \in 1..Len(last.log[i]) :
                           LET it == last.fetched[i].items[k]
                               done == last.log[i][k]
                           IN  /\ done.id = it.id
                               /\ ScorePositive(done.score) =>
                                      /\ done.calls # <<>>
                                      /\ last.sfail.id # it.id =>
                                             /\ Live(db, now, itemKey(last.source, it.id))
                                             /\ \A f \in {"daily", "weekly"} :
                                                    LET z == periodZKey(last.source,
                                                                        periodKey(f, now))
                                                    IN  /\ Live(db, now, z)
                                                        /\ it.id \in DOMAIN db[z].val

\* a tick whose first fetch failed and whose second sub-list held an item
\* with a failed write followed by another item, which was stored
C23_Witness ==
    /\ last.op = "tick"
    /\ Len(last.lists) = 2
    /\ last.fetched[1].err
    /\ ~last.fetched[2].err
    /\ Len(last.log[2]) = 2
    /\ last.log[2][1].id = last.sfail.id
    /\ TRUE \in Range(last.log[2][1].errs)
    /\ last.log[2][2].id # last.sfail.id
    /\ ScorePositive(last.log[2][2].score)
    /\ Live(db, now, itemKey(last.source, last.log[2][2].id))

C25_PublishFailureKeepsLocalSuccess ==
    [][last'.op = "builder" =>
          LET ch == last'.ch
              dur == cfg.channels[ch].skipDays
          IN  /\ last'.publish # "none" =>
                     /\ last'.stage = "done"
                     /\ last'.wrote
                     /\ Live(db', now', publishedKey(ch, last'.period))
                     /\ \A id \in Range(last'.skipCalls) :
                            (dur > 0 /\ ~(last'.fail.at = "markskipped"
                                             /\ last'.fail.id = id))
                                => Live(db', now', skipKey(ch, id))
                     /\ \A key \in DOMAIN db : Live(db, now, key) => Live(db', now', key)
              /\ Live(db, now, publishedKey(ch, last'.period))
                     => last'.publish = "none"]_vars

\* the hand-over to Quaily failed in a tick that marked an item as skipped
C25_Witness ==
    /\ last.op = "builder"
    /\ last.publish = "failed"
    /\ last.skipCalls # <<>>
    /\ Live(db, now, publishedKey(last.ch, last.period))
    /\ \E id \in Range(last.skipCalls) : Live(db, now, skipKey(last.ch, id))

\* C26: on a store without published flag and skip marker, a store-mode
\* generate run that renders a digest reads the period of the channel's
\* frequency and renders the ids a builder tick of the same channel at the
\* same instant selects, truncated to TopN.
C26_GenerateSelectsAsBuilder ==
    [][(/\ last'.op = "generate"
        /\ last'.stage = "done"
        /\ Range(last'.selected) \subseteq Ids
        /\ db = WithoutMarks(db)) =>
           LET c == cfg.channels[last'.ch]
               b == runOnce(db, now, cfg, last'.ch, NoFail, "err", "err").last
           IN  /\ last'.period = periodKey(c.frequency, now)
               /\ last'.period = b.period
               /\ b.stage = "done"
               /\ last'.selected =
                      SubSeq(b.selected, 1, Min(Len(b.selected), c.topN))]_vars

\* C27: as long as the context is not cancelled, Manager.Start is at its
\* spawn loop or blocked on ctx.Done() and has returned nothing, whatever its
\* workers have done, a returned error included.
C27_ManagerBlocksUntilCancel ==
    ~sched.cancelled =>
        /\ sched.mgr \in {"spawn", "wait_ctx"}
        /\ sched.result = "none"

\* every worker has returned, one with an error, the context is not
\* cancelled and the manager is blocked
C27_Witness ==
    /\ ~sched.cancelled
    /\ sched.mgr = "wait_ctx"
    /\ \A w \in DOMAIN sched.pc : sched.pc[w] = "returned"
    /\ \E w \in DOMAIN sched.ret : sched.ret[w] = "err"
    /\ sched.errs # <<>>

\* C28: a runOnce of a worker begins (its initial run, or a run that takes
\* a tick from the worker's ticker) only when no runOnce of that worker is in
\* progress: the worker has just been started or waits in its select.
C28_TicksNeverOverlap ==
    [][\A w \in DOMAIN sched.pc :
           LET begins ==
                   \/ /\ sched'.pc[w] \in {"first", "running"}
                      /\ sched'.pc[w] # sched.pc[w]
                   \/ /\ sched.ticker[w] = "fired"
                      /\ sched'.ticker[w] = "armed"
           IN  begins => sched.pc[w] \in {"spawned", "select"}]_vars

\* a builder runs a tick taken from its ticker while the runOnce of another
\* worker is in progress and the next tick of the builder is already waiting
C28_Witness ==
    /\ last.op = "tick"
    /\ ~last.first
    /\ IsBuilder(last.worker)
    /\ sched.pc[last.worker] = "running"
    /\ sched.ticker[last.worker] = "fired"
    /\ \E w \in DOMAIN sched.pc \ {last.worker} :
           sched.pc[w] \in {"first", "running"}

\* C29: within one day, in every interleaving of the commands of an AddNews
\* call with the commands of a TopNews call, every member of every ranked set
\* has a live payload, and no TopNews call returns an error.
C29_RankedEntriesHavePayload ==
    /\ \A key \in DOMAIN db :
           db[key].kind = "zset" =>
               \A id \in DOMAIN db[key].val : Live(db, now, itemKey(key[2], id))
    /\ ~(last.op = "TopNews" /\ last.err)

\* a TopNews call has read its ids and not yet their payloads while an
\* AddNews call for another id is between its SET and its ZADD
C29_Witness ==
    /\ sched.top.pc = "get"
    /\ sched.top.rest # <<>>
    /\ sched.add.pc = "zadd"
    /\ \A e \in Range(sched.top.rest) : e.member # sched.add.it.id
    /\ sched.add.source = sched.top.source

\* C30: a builder tick of channel A changes no key of the store but
\* published flags and skip markers of A, and leaves the candidates of every
\* other channel as they were.
C30_BuilderTickFrame ==
    [][(db' # db /\ last'.op = "tick" /\ IsBuilder(last'.worker)) =>
           LET a == last'.worker
               Sel(d, b) ==
                   LET c == cfg.channels[b]
                       top == TopNews(d, now, c.source, periodKey(c.frequency, now),
                                      FetchN(c.topN), TRUE)
                   IN  IdsOf(Candidates(d, now, c, b, top, NoFail))
           IN  /\ \A key \in DOMAIN db \cup DOMAIN db' :
                      \/ key \in DOMAIN db /\ key \in DOMAIN db' /\ db'[key] = db[key]
                      \/ key[1] \in {"news:published:", "news:skip:"} /\ key[2] = a
               /\ \A b \in DOMAIN cfg.channels \ {a} : Sel(db', b) = Sel(db, b)]_vars

\* two channels of the same source have published the same period and each
\* holds its own skip marker of the same item
C30_Witness ==
    /\ {"forum", "tech"} \subseteq DOMAIN cfg.channels
    /\ cfg.channels["forum"].frequency = cfg.channels["tech"].frequency
    /\ cfg.channels["forum"].source = cfg.channels["tech"].source
    /\ last.op = "tick"
    /\ IsBuilder(last.worker)
    /\ \A ch \in {"forum", "tech"} :
           /\ Live(db, now, <<"news:published:", ch, ":">> \o periodKey("daily", now))
           /\ Live(db, now, <<"news:skip:", ch, ":", 1>>)

====
